---------------------------- MODULE Spec2Model ----------------------------
(***************************************************************************)
(* A model of the CEFI data servers: the level navigator with its fuzzy    *)
(* matcher (mcp_cefi_data_info.py), the query server                       *)
(* (mcp_cefi_data_query.py), the analysis server (mcp_cefi_analysis.py)    *)
(* and the THREDDS catalog crawler (cefi_thredds_crawl.py).                *)
(*                                                                         *)
(* A Python str is a sequence of fragments, each a TLA+ string; the str is *)
(* the concatenation of its fragments.  Tree keys and selectors are spelt  *)
(* one character per fragment, so that lower(), `in` and the similarity    *)
(* ratio are computed character by character.  Literal messages of the     *)
(* code are one fragment.                                                  *)
(***************************************************************************)
EXTENDS Integers, Sequences, FiniteSets, TLC

VARIABLES
    \* ---- the navigator server, mcp_cefi_data_info.py (Spec)
    dict_level_options,  \* the module global: None, or the loaded option tree
    list_level_names,    \* the module global: None, or the level names
    fetches,             \* how many times load_cefi_data_tree has run
    loadFailed,          \* whether some load_cefi_data_tree returned None
    call,                \* the tool call last answered, Idle when delivered
    args,                \* its arguments
    result,              \* what it returned (None when it raised)
    raised,              \* the exception that escaped it, NoException if none
    \* ---- the query server, mcp_cefi_data_query.py (SpecTools)
    dict_data_tree,      \* the module global: None, or the loaded tree
    \* ---- the catalog crawler, cefi_thredds_crawl.py (SpecCrawl)
    cpc,                 \* "start", "crawling" or "done"
    base_catalog_url,    \* the argument of find_all_files_thredds
    visited,             \* the set visited
    cresult,             \* the dict result: html url -> list of access urls
    cstack,              \* the calls of recurse in progress, innermost last:
                         \* each the sub-catalog urls it has still to recurse into
    fetchCount,          \* how many GETs each catalog url has received
    parsedDatasets,      \* the urlPaths of each catalog parsed so far
    discovered,          \* the urls referenced by the catalogs parsed so far
    hidden,              \* the urls referenced by catalogs whose GET failed
    skipped,             \* the urls a recurse call found already visited
    \* ---- callers of get_level_name running side by side (SpecRace)
    tpc,                 \* where each caller is in its call
    tsawNone,            \* whether it found dict_level_options None at line 48
    ttmp,                \* the tree it has fetched and not yet assigned
    tresult,             \* what its call returned (None when it raised)
    traised,             \* the exception that escaped its call
    \* ---- is_match applied to drawn inputs (SpecMatch)
    mquery,              \* the query handed to is_match
    mcands,              \* the candidate list handed to is_match
    mresult,             \* what is_match returned (None when no match)
    mdone                \* whether is_match has been applied

navVars == <<dict_level_options, list_level_names, fetches, loadFailed>>
callVars == <<call, args, result, raised>>
queryVars == <<dict_data_tree>>
matchVars == <<mquery, mcands, mresult, mdone>>
crawlVars == <<cpc, base_catalog_url, visited, cresult, cstack, fetchCount,
               parsedDatasets, discovered, hidden, skipped>>

raceVars == <<tpc, tsawNone, ttmp, tresult, traised>>

vars == <<navVars, queryVars, callVars, matchVars, crawlVars, raceVars>>

\* Python's None: a value that is no str (no str has the fragment "None")
\* and no dict
None == <<"None", "None">>

-----------------------------------------------------------------------------
(* Python str helpers *)

\* str.lower() on one character (the alphabet of the model is ASCII)
LowerChar(c) ==
    CASE c = "A" -> "a"
      [] c = "B" -> "b"
      [] c = "C" -> "c"
      [] c = "D" -> "d"
      [] c = "X" -> "x"
      [] c = "Y" -> "y"
      [] c = "Z" -> "z"
      [] OTHER   -> c

\* str.lower()
Lower(s) == [i \in 1..Len(s) |-> LowerChar(s[i])]

\* `sub in s` for two str
Contains(s, sub) ==
    \E i \in 0..(Len(s) - Len(sub)) :
        \A k \in 1..Len(sub) : s[i + k] = sub[k]

\* the newline of "\n".join
NL == "\n"

RECURSIVE Join(_)
\* "\n".join(items): the items' characters with a newline between two items
Join(items) ==
    IF Len(items) = 0 THEN <<>>
    ELSE IF Len(items) = 1 THEN items[1]
    ELSE items[1] \o <<NL>> \o Join(Tail(items))

-----------------------------------------------------------------------------
(* Python dict: <<"dict", items>>, items the <<key, value>> pairs in        *)
(* insertion order                                                          *)

Dict(items) == <<"dict", items>>

IsDict(v) == Len(v) > 0 /\ v[1] = "dict"

\* d.keys(), in insertion order
Keys(d) == [i \in 1..Len(d[2]) |-> d[2][i][1]]

\* whether d[k] raises KeyError
HasKey(d, k) == \E i \in 1..Len(d[2]) : d[2][i][1] = k

\* d[k] for a key d has
Get(d, k) == d[2][CHOOSE i \in 1..Len(d[2]) : d[2][i][1] = k][2]

\* bool(v) for None, a dict or a str: `not v` is ~Truthy(v)
Truthy(v) ==
    IF v = None THEN FALSE
    ELSE IF IsDict(v) THEN Len(v[2]) > 0
    ELSE Len(v) > 0

-----------------------------------------------------------------------------
(* difflib.SequenceMatcher(None, a, b).ratio(), no junk (autojunk only      *)
(* acts on sequences of 200 elements or more)                               *)

RECURSIVE RunLen(_, _, _, _, _, _)
\* length of the common run of a[i..ahi] and b[j..bhi] starting at (i, j)
RunLen(a, b, i, j, ahi, bhi) ==
    IF i > ahi \/ j > bhi \/ a[i] # b[j] THEN 0
    ELSE 1 + RunLen(a, b, i + 1, j + 1, ahi, bhi)

\* find_longest_match(alo, ahi, blo, bhi), 1-based inclusive bounds: the
\* longest block a[i..i+k-1] = b[j..j+k-1]; of the longest blocks the one
\* starting earliest in a, and of those the one starting earliest in b.
\* <<0, 0, 0>> stands for "no match" (k = 0).
FindLongestMatch(a, b, alo, ahi, blo, bhi) ==
    LET blocks == {<<p[1], p[2], RunLen(a, b, p[1], p[2], ahi, bhi)>> :
                      p \in (alo..ahi) \X (blo..bhi)}
        found == {m \in blocks : m[3] > 0}
    IN  IF found = {} THEN <<0, 0, 0>>
        ELSE CHOOSE m \in found :
                \A n \in found :
                    \/ m[3] > n[3]
                    \/ (m[3] = n[3] /\ m[1] < n[1])
                    \/ (m[3] = n[3] /\ m[1] = n[1] /\ m[2] <= n[2])

RECURSIVE MatchingSize(_, _, _, _, _, _)
\* the sum of the sizes of get_matching_blocks() within the window: the
\* longest match, then the matches left of it and right of it
MatchingSize(a, b, alo, ahi, blo, bhi) ==
    IF alo > ahi \/ blo > bhi THEN 0
    ELSE LET m == FindLongestMatch(a, b, alo, ahi, blo, bhi)
         IN  IF m[3] = 0 THEN 0
             ELSE m[3]
                  + MatchingSize(a, b, alo, m[1] - 1, blo, m[2] - 1)
                  + MatchingSize(a, b, m[1] + m[3], ahi, m[2] + m[3], bhi)

\* ratio() as the exact fraction <<numerator, denominator>>:
\* 2.0 * matches / (len(a) + len(b)), and 1.0 when both are empty
Ratio(a, b) ==
    IF Len(a) + Len(b) = 0 THEN <<1, 1>>
    ELSE <<2 * MatchingSize(a, b, 1, Len(a), 1, Len(b)), Len(a) + Len(b)>>

\* r > s for two fractions with positive denominators
FracGT(r, s) == r[1] * s[2] > s[1] * r[2]

\* the 0.6 of `ratio > 0.6`
Threshold == <<6, 10>>

\* the 0.0 best_score starts at
ZeroScore == <<0, 1>>

-----------------------------------------------------------------------------
(* is_match *)

\* FirstPartial with the candidate compared as written (no candidate.lower())
FirstPartial_CaseSensitive(query_lower, candidates) ==
    LET hits == {i \in 1..Len(candidates) :
                    Contains(candidates[i], query_lower)}
    IN  IF hits = {} THEN None
        ELSE candidates[CHOOSE i \in hits : \A j \in hits : i <= j]

\* FirstPartial keeping the last hit instead of returning at the first
FirstPartial_Last(query_lower, candidates) ==
    LET hits == {i \in 1..Len(candidates) :
                    Contains(Lower(candidates[i]), query_lower)}
    IN  IF hits = {} THEN None
        ELSE candidates[CHOOSE i \in hits : \A j \in hits : i >= j]

\* the first loop: the first candidate whose lower() contains query_lower
FirstPartial(query_lower, candidates) ==
    LET hits == {i \in 1..Len(candidates) :
                    Contains(Lower(candidates[i]), query_lower)}
    IN  IF hits = {} THEN None
        ELSE candidates[CHOOSE i \in hits : \A j \in hits : i <= j]

\* FuzzyStep with `>=` in place of both `>`
FuzzyStep_GreaterEqual(st, query_lower, candidate) ==
    LET ratio == Ratio(query_lower, Lower(candidate))
    IN  IF ~FracGT(Threshold, ratio) /\ ~FracGT(st[2], ratio)
        THEN <<candidate, ratio>>
        ELSE st

\* one turn of the second loop: st = <<best_match, best_score>>
FuzzyStep(st, query_lower, candidate) ==
    LET ratio == Ratio(query_lower, Lower(candidate))
    IN  IF FracGT(ratio, Threshold) /\ FracGT(ratio, st[2])
        THEN <<candidate, ratio>>
        ELSE st

RECURSIVE FuzzyLoop(_, _, _, _)
\* the second loop from candidate i on
FuzzyLoop(st, query_lower, candidates, i) ==
    IF i > Len(candidates) THEN st
    ELSE FuzzyLoop(FuzzyStep(st, query_lower, candidates[i]),
                   query_lower, candidates, i + 1)

is_match(query, candidates) ==
    LET query_lower == Lower(query)
        partial == FirstPartial(query_lower, candidates)
    IN  IF partial # None THEN partial
        ELSE FuzzyLoop(<<None, ZeroScore>>, query_lower, candidates, 1)[1]

-----------------------------------------------------------------------------
(* The navigator server: state before any call *)

Idle == "idle"
NoException == "none"

\* how many callers run side by side
NumCallers == 3
Callers == 1..NumCallers

\* no caller has called yet
InitRaceIdle ==
    /\ tpc = [t \in Callers |-> "idle"]
    /\ tsawNone = [t \in Callers |-> FALSE]
    /\ ttmp = [t \in Callers |-> None]
    /\ tresult = [t \in Callers |-> None]
    /\ traised = [t \in Callers |-> NoException]

\* the crawler before find_all_files_thredds is called
InitCrawlIdle ==
    /\ cpc = "start"
    /\ base_catalog_url = <<>>
    /\ visited = {}
    /\ cresult = <<>>
    /\ cstack = <<>>
    /\ fetchCount = <<>>
    /\ parsedDatasets = <<>>
    /\ discovered = {}
    /\ hidden = {}
    /\ skipped = {}

InitNav ==
    /\ InitCrawlIdle
    /\ InitRaceIdle
    /\ dict_level_options = None
    /\ dict_data_tree = None
    /\ list_level_names = None
    /\ fetches = 0
    /\ loadFailed = FALSE
    /\ call = Idle
    /\ args = <<>>
    /\ result = None
    /\ raised = NoException

-----------------------------------------------------------------------------
(* The JSON documents CEFI_DATA_TREE_URL may serve *)

kABC == <<"a", "b", "c">>
kCD  == <<"c", "d">>
kXYZ == <<"x", "y", "z">>
kAXB == <<"a", "x", "b">>

\* the number of selector levels of get_level_options
NumLevels == 7

RECURSIVE Below(_)
\* the option tree from level l down: two keys a level, and the variable
\* names (level 8) map to empty dicts
Below(l) ==
    IF l > NumLevels + 1 THEN Dict(<<>>)
    ELSE IF l % 2 = 1
         THEN Dict(<< <<kABC, Below(l + 1)>>, <<kCD, Below(l + 1)>> >>)
         ELSE Dict(<< <<kAXB, Below(l + 1)>>, <<kXYZ, Below(l + 1)>> >>)

\* an option tree: region abc with subdomains axb and xyz, region cd with
\* the one subdomain cd
PortalTree ==
    Dict(<< <<kABC, Below(2)>>,
            <<kCD, Dict(<< <<kCD, Below(3)>> >>)>> >>)

\* the keys check_cefi_data_cache subscripts the document with
PortalPath ==
    << <<"Projects">>, <<"CEFI">>, <<"regional_mom6">>, <<"cefi_portal">> >>

RECURSIVE Wrap(_, _, _)
\* the document {path[i]: {path[i+1]: ... {path[n]: v}}}
Wrap(path, i, v) ==
    IF i > Len(path) THEN v
    ELSE Dict(<< <<path[i], Wrap(path, i + 1, v)>> >>)

\* the responses to the GET: a transport or HTTP failure, or a JSON body:
\* an object without "Projects", a document with an empty portal, a
\* document with an option tree
Responses ==
    { [ok |-> FALSE, json |-> None],
      [ok |-> TRUE, json |-> Dict(<<>>)],
      [ok |-> TRUE, json |-> Wrap(PortalPath, 1, Dict(<<>>))],
      [ok |-> TRUE, json |-> Wrap(PortalPath, 1, PortalTree)] }

\* load_cefi_data_tree: the parsed JSON, or None when anything failed
load_cefi_data_tree(response) ==
    IF response.ok THEN response.json ELSE None

TypeError == "TypeError"
KeyError == "KeyError"

RECURSIVE SubscriptPath(_, _, _)
\* v[path[i]][path[i+1]]...: the value, or the exception the first failing
\* subscript raises (None is not subscriptable; a dict may lack the key)
SubscriptPath(v, path, i) ==
    IF i > Len(path) THEN [raised |-> NoException, value |-> v]
    ELSE IF v = None THEN [raised |-> TypeError, value |-> None]
    ELSE IF ~HasKey(v, path[i]) THEN [raised |-> KeyError, value |-> None]
    ELSE SubscriptPath(Get(v, path[i]), path, i + 1)

-----------------------------------------------------------------------------
(* check_cefi_data_cache of the navigator server *)

LevelNames ==
    << <<"region">>, <<"subdomain">>, <<"experiment_type">>,
       <<"output_frequency">>, <<"grid_type">>, <<"release_date">>,
       <<"variable_catagory">>, <<"variable_name">>,
       <<"variable_short_name">>, <<"variable_file_name">>,
       <<"file_meta_data">> >>

NoDataMsg == <<"No CEFI data available currently.">>

\* Python's True
PyTrue == <<"True", "True">>

\* the return statement of check_cefi_data_cache for a loaded dict
CacheReturn(d) == IF ~Truthy(d) THEN NoDataMsg ELSE PyTrue

\* check_cefi_data_cache on globals d, names when the GET, if one is made,
\* is answered by response: the new globals, whether the load ran, what it
\* returned, and the return value or the exception
check_cefi_data_cache(d, names, response) ==
    IF d = None
    THEN LET loaded == load_cefi_data_tree(response)
             sub == SubscriptPath(loaded, PortalPath, 1)
         IN  IF sub.raised # NoException
             THEN [dict |-> d, names |-> names, fetched |-> TRUE,
                   loaded |-> loaded, raised |-> sub.raised, ret |-> None]
             ELSE [dict |-> sub.value, names |-> LevelNames, fetched |-> TRUE,
                   loaded |-> loaded, raised |-> NoException,
                   ret |-> CacheReturn(sub.value)]
    ELSE [dict |-> d, names |-> names, fetched |-> FALSE,
          loaded |-> d, raised |-> NoException, ret |-> CacheReturn(d)]

-----------------------------------------------------------------------------
(* get_level_options and get_level_name *)

\* NoMatchMsgs with the grid type answer pasted from the level above
NoMatchMsgs_Pasted ==
    << <<"No matching region found.">>,
       <<"No matching subdomain found.">>,
       <<"No matching experiment type found.">>,
       <<"No matching output frequency found.">>,
       <<"No matching output frequency found.">>,
       <<"No matching release date found.">>,
       <<"No matching variable category found.">> >>

\* the "No matching ... found." of each level
NoMatchMsgs ==
    << <<"No matching region found.">>,
       <<"No matching subdomain found.">>,
       <<"No matching experiment type found.">>,
       <<"No matching output frequency found.">>,
       <<"No matching grid type found.">>,
       <<"No matching release date found.">>,
       <<"No matching variable category found.">> >>

RECURSIVE Descend_RejectDeeper(_, _, _)
\* Descend answering a None selector that has a non-None selector below it
\* with the level's "No matching" message instead of the listing
Descend_RejectDeeper(node, sel, i) ==
    IF i > NumLevels THEN Join(Keys(node))
    ELSE IF sel[i] = None
         THEN IF \E j \in (i + 1)..NumLevels : sel[j] # None
              THEN NoMatchMsgs[i]
              ELSE Join(Keys(node))
    ELSE LET key == is_match(sel[i], Keys(node))
         IN  IF key = None THEN NoMatchMsgs[i]
             ELSE Descend_RejectDeeper(Get(node, key), sel, i + 1)

RECURSIVE Descend(_, _, _)
\* lines 129-179 from level i on, node the dict reached so far: list the
\* keys at the first None selector, stop at the first selector that does
\* not match, descend by the matched key otherwise
Descend(node, sel, i) ==
    IF i > NumLevels THEN Join(Keys(node))
    ELSE IF sel[i] = None THEN Join(Keys(node))
    ELSE LET key == is_match(sel[i], Keys(node))
         IN  IF key = None THEN NoMatchMsgs[i]
             ELSE Descend(Get(node, key), sel, i + 1)

\* the body of get_level_options after the cache check c
LevelOptionsBody(c, sel) ==
    IF c.raised # NoException THEN [raised |-> c.raised, ret |-> None]
    ELSE IF ~Truthy(c.ret) THEN [raised |-> NoException, ret |-> NoDataMsg]
    ELSE [raised |-> NoException, ret |-> Descend(c.dict, sel, 1)]

LevelNameHeader == <<"All the level category name from top to bottom\n">>

\* the body of get_level_name after the cache check c
LevelNameBody(c) ==
    IF c.raised # NoException THEN [raised |-> c.raised, ret |-> None]
    ELSE IF ~Truthy(c.ret) THEN [raised |-> NoException, ret |-> NoDataMsg]
    ELSE [raised |-> NoException, ret |-> LevelNameHeader \o Join(c.names)]

-----------------------------------------------------------------------------
(* The navigator server's calls *)

\* load_cefi_data_tree runs at most this many times in a behaviour
MaxFetches == 2

sAB == <<"a", "b">>
sCD == <<"C", "D">>
sXY == <<"x", "y">>

\* what a selector argument is drawn from
Selectors == {None, sAB, sCD, sXY}

SelectorTuples == [1..NumLevels -> Selectors]

\* the responses a call may meet: one is consumed only when the cache is
\* empty
ResponsesFor(d) == IF d = None THEN Responses ELSE {[ok |-> FALSE, json |-> None]}

\* a cache check that leaves the global at the first sub-tree of the tree
CacheEffect_Narrowing(c) ==
    /\ dict_level_options' =
            IF c.dict # None /\ Len(Keys(c.dict)) > 0
            THEN Get(c.dict, Keys(c.dict)[1]) ELSE c.dict
    /\ list_level_names' = c.names
    /\ fetches' = IF c.fetched THEN fetches + 1 ELSE fetches
    /\ loadFailed' = (loadFailed \/ (c.fetched /\ c.loaded = None))

\* the globals and the load history after the cache check c
CacheEffect(c) ==
    /\ dict_level_options' = c.dict
    /\ list_level_names' = c.names
    /\ fetches' = IF c.fetched THEN fetches + 1 ELSE fetches
    /\ loadFailed' = (loadFailed \/ (c.fetched /\ c.loaded = None))

\* a call may run when the previous answer is delivered and, if it would
\* load, the load budget is not used up
CanCall ==
    /\ call = Idle
    /\ (dict_level_options = None => fetches < MaxFetches)

GetLevelOptions ==
    /\ CanCall
    /\ \E sel \in SelectorTuples, response \in ResponsesFor(dict_level_options) :
        LET c == check_cefi_data_cache(dict_level_options, list_level_names,
                                       response)
            out == LevelOptionsBody(c, sel)
        IN  /\ CacheEffect(c)
            /\ call' = "get_level_options"
            /\ args' = sel
            /\ result' = out.ret
            /\ raised' = out.raised
    /\ UNCHANGED <<queryVars, matchVars, crawlVars, raceVars>>

GetLevelName ==
    /\ CanCall
    /\ \E response \in ResponsesFor(dict_level_options) :
        LET c == check_cefi_data_cache(dict_level_options, list_level_names,
                                       response)
            out == LevelNameBody(c)
        IN  /\ CacheEffect(c)
            /\ call' = "get_level_name"
            /\ args' = <<>>
            /\ result' = out.ret
            /\ raised' = out.raised
    /\ UNCHANGED <<queryVars, matchVars, crawlVars, raceVars>>

\* check_cefi_data_cache called on its own, as the __main__ block does
CheckCefiDataCache ==
    /\ CanCall
    /\ \E response \in ResponsesFor(dict_level_options) :
        LET c == check_cefi_data_cache(dict_level_options, list_level_names,
                                       response)
        IN  /\ CacheEffect(c)
            /\ call' = "check_cefi_data_cache"
            /\ args' = <<>>
            /\ result' = c.ret
            /\ raised' = c.raised
    /\ UNCHANGED <<queryVars, matchVars, crawlVars, raceVars>>

\* the answer (or the error) goes back to the caller and the server waits
\* for the next request
Deliver ==
    /\ call # Idle
    /\ call' = Idle
    /\ args' = <<>>
    /\ result' = None
    /\ raised' = NoException
    /\ UNCHANGED <<navVars, queryVars, matchVars, crawlVars, raceVars>>

InitMatchIdle ==
    /\ mquery = <<>>
    /\ mcands = <<>>
    /\ mresult = None
    /\ mdone = FALSE

Init == InitNav /\ InitMatchIdle

Next ==
    \/ GetLevelOptions
    \/ GetLevelName
    \/ CheckCefiDataCache
    \/ Deliver

-----------------------------------------------------------------------------
(* Properties of the navigator server (Spec) *)

NavigatorTools == {"get_level_options", "get_level_name"}

\* C1: once a load has returned None, every navigator query returns the
\* fixed "No CEFI data available currently." and does not raise.
C1_AbsentTreeSentinel ==
    (loadFailed /\ call \in NavigatorTools) =>
        (raised = NoException /\ result = NoDataMsg)

\* C2: load_cefi_data_tree runs at most once in the life of the process.
C2_FetchAtMostOnce == fetches <= 1

\* the position of the first None selector, NumLevels + 1 when there is none
FirstNone(sel) ==
    IF \A i \in 1..NumLevels : sel[i] # None THEN NumLevels + 1
    ELSE CHOOSE i \in 1..NumLevels :
            sel[i] = None /\ \A j \in 1..(i - 1) : sel[j] # None

RECURSIVE NodeAt(_, _)
\* the dict reached from node by resolving each selector of prefix in turn
\* against the keys at its level, None when one of them does not resolve
NodeAt(node, prefix) ==
    IF Len(prefix) = 0 THEN node
    ELSE IF Head(prefix) = None THEN None
    ELSE LET key == is_match(Head(prefix), Keys(node))
         IN  IF key = None THEN None
             ELSE NodeAt(Get(node, key), Tail(prefix))

\* get_level_options has answered with the tree loaded
AnsweredLoaded == call = "get_level_options" /\ dict_level_options # None

\* C7: with a loaded tree, when the selectors above the first None all
\* resolve, get_level_options returns the newline-joined keys, in insertion
\* order, of the dict the resolved path reaches; the result is a function
\* of the selectors above the first None alone.
C7_ListingAtFirstNone ==
    AnsweredLoaded =>
        LET i == FirstNone(args)
            node == NodeAt(dict_level_options, SubSeq(args, 1, i - 1))
        IN  (i <= NumLevels /\ node # None) =>
                (raised = NoException /\ result = Join(Keys(node)))

\* the first None is at level 3 or deeper, a selector below it is given,
\* and the answer lists the two or more keys the resolved path reaches
C7_Witness ==
    /\ AnsweredLoaded
    /\ LET i == FirstNone(args)
           node == NodeAt(dict_level_options, SubSeq(args, 1, i - 1))
       IN  /\ i >= 3 /\ i < NumLevels
           /\ node # None
           /\ \E j \in (i + 1)..NumLevels : args[j] # None
           /\ Len(Keys(node)) >= 2
           /\ result = Join(Keys(node))

\* the answer the claim names for a selector of level i that does not match
C8_Message ==
    << <<"No matching region found.">>,
       <<"No matching subdomain found.">>,
       <<"No matching experiment type found.">>,
       <<"No matching output frequency found.">>,
       <<"No matching grid type found.">>,
       <<"No matching release date found.">>,
       <<"No matching variable category found.">> >>

\* C8: with a loaded tree, get_level_options never raises and returns a
\* str; when the selectors above level i all resolve and the selector of
\* level i is given and matches no key at its level, the str is the
\* "No matching ... found." of level i.
C8_NoMatchAtLevel ==
    AnsweredLoaded =>
        /\ raised = NoException
        /\ result # None /\ ~IsDict(result)
        /\ \A i \in 1..NumLevels :
            LET node == NodeAt(dict_level_options, SubSeq(args, 1, i - 1))
            IN  (/\ node # None
                 /\ args[i] # None
                 /\ is_match(args[i], Keys(node)) = None)
                => result = C8_Message[i]

\* the selectors of levels 1 to 4 resolve, the selector of level 5 (grid
\* type) matches nothing, and the answer names the grid type
C8_Witness ==
    /\ AnsweredLoaded
    /\ LET node == NodeAt(dict_level_options, SubSeq(args, 1, 4))
       IN  /\ node # None
           /\ args[5] # None
           /\ is_match(args[5], Keys(node)) = None
    /\ result = <<"No matching grid type found.">>

\* what a navigator tool answers from the tree and the level names alone
StatelessAnswer(tool, tree, names, sel) ==
    IF tool = "get_level_options" THEN Descend(tree, sel, 1)
    ELSE LevelNameHeader \o Join(names)

\* C13: once the tree is loaded, no step changes dict_level_options or
\* list_level_names, and the answer of every get_level_options or
\* get_level_name call is the one its own arguments give on the tree and the
\* names as they stand after the call, whatever calls came before.
C13_NavigationStateless ==
    /\ [][dict_level_options # None =>
            /\ dict_level_options' = dict_level_options
            /\ list_level_names' = list_level_names]_vars
    /\ []((call \in NavigatorTools /\ dict_level_options # None) =>
            /\ raised = NoException
            /\ result = StatelessAnswer(call, dict_level_options,
                                        list_level_names, args))

\* after one load and a failed one before it, get_level_options has resolved
\* two levels and listed the third, and the globals are still the whole tree
\* and the eleven names
C13_Witness ==
    /\ call = "get_level_options"
    /\ loadFailed /\ fetches = 2
    /\ dict_level_options = PortalTree
    /\ list_level_names = LevelNames
    /\ args[1] # None /\ args[2] # None /\ args[3] = None
    /\ NodeAt(PortalTree, SubSeq(args, 1, 2)) # None
    /\ result = Join(Keys(NodeAt(PortalTree, SubSeq(args, 1, 2))))

\* the bool the signature and the docstring of check_cefi_data_cache name
\* beside True
PyFalse == <<"False", "False">>

\* C15 as stated: check_cefi_data_cache returns True when the cache is
\* loaded and False otherwise (the fetch failed or the loaded tree is empty),
\* so that the guard `if not check_cefi_data_cache()` of the tools answers
\* "No CEFI data available currently." whenever no usable tree is there.
C15_ReturnsBoolean ==
    /\ call = "check_cefi_data_cache" =>
        /\ raised = NoException
        /\ result = IF Truthy(dict_level_options) THEN PyTrue ELSE PyFalse
    /\ (call \in NavigatorTools /\ ~Truthy(dict_level_options)) =>
        (raised = NoException /\ result = NoDataMsg)

-----------------------------------------------------------------------------
(* get_level_name called by several callers whose steps interleave: each    *)
(* read and each assignment of a global is a step of its own, and the fetch *)
(* is a step between the test of line 48 and the assignment of line 49.     *)

\* lines 193-195 and 48: the call begins and tests dict_level_options
RaceCheck(t) ==
    /\ tpc[t] = "idle"
    /\ tsawNone' = [tsawNone EXCEPT ![t] = (dict_level_options = None)]
    /\ tpc' = [tpc EXCEPT ![t] =
                 IF dict_level_options = None THEN "fetch" ELSE "return"]
    /\ UNCHANGED <<ttmp, tresult, traised>>
    /\ UNCHANGED <<navVars, queryVars, callVars, matchVars, crawlVars>>

\* what the fetch and the subscripts of line 49 do to caller t
Fetching(t, response) ==
    LET loaded == load_cefi_data_tree(response)
        sub == SubscriptPath(loaded, PortalPath, 1)
    IN  /\ fetches' = fetches + 1
        /\ loadFailed' = (loadFailed \/ loaded = None)
        /\ IF sub.raised # NoException
           THEN /\ traised' = [traised EXCEPT ![t] = sub.raised]
                /\ tpc' = [tpc EXCEPT ![t] = "done"]
                /\ ttmp' = ttmp
           ELSE /\ ttmp' = [ttmp EXCEPT ![t] = sub.value]
                /\ tpc' = [tpc EXCEPT ![t] = "store_dict"]
                /\ traised' = traised

\* a fetch that looks at the global once more and is skipped when another
\* caller has loaded the tree in the meantime
RaceFetch_Rechecked(t) ==
    /\ tpc[t] = "fetch"
    /\ IF dict_level_options = None
       THEN \E response \in Responses : Fetching(t, response)
       ELSE /\ tpc' = [tpc EXCEPT ![t] = "return"]
            /\ UNCHANGED <<fetches, loadFailed, ttmp, traised>>
    /\ UNCHANGED <<dict_level_options, list_level_names, tsawNone, tresult>>
    /\ UNCHANGED <<queryVars, callVars, matchVars, crawlVars>>

\* line 49, right-hand side: the caller that found None fetches the tree,
\* whatever has happened to the global since
RaceFetch(t) ==
    /\ tpc[t] = "fetch"
    /\ \E response \in Responses : Fetching(t, response)
    /\ UNCHANGED <<dict_level_options, list_level_names, tsawNone, tresult>>
    /\ UNCHANGED <<queryVars, callVars, matchVars, crawlVars>>

\* line 49, the assignment
RaceStoreDict(t) ==
    /\ tpc[t] = "store_dict"
    /\ dict_level_options' = ttmp[t]
    /\ ttmp' = [ttmp EXCEPT ![t] = None]
    /\ tpc' = [tpc EXCEPT ![t] = "store_names"]
    /\ UNCHANGED <<list_level_names, fetches, loadFailed>>
    /\ UNCHANGED <<tsawNone, tresult, traised>>
    /\ UNCHANGED <<queryVars, callVars, matchVars, crawlVars>>

\* lines 50-53
RaceStoreNames(t) ==
    /\ tpc[t] = "store_names"
    /\ list_level_names' = LevelNames
    /\ tpc' = [tpc EXCEPT ![t] = "return"]
    /\ UNCHANGED <<dict_level_options, fetches, loadFailed>>
    /\ UNCHANGED <<tsawNone, ttmp, tresult, traised>>
    /\ UNCHANGED <<queryVars, callVars, matchVars, crawlVars>>

\* lines 55-58 and 195-196: check_cefi_data_cache returns and the guard of
\* get_level_name is evaluated
RaceReturn(t) ==
    /\ tpc[t] = "return"
    /\ IF ~Truthy(CacheReturn(dict_level_options))
       THEN /\ tresult' = [tresult EXCEPT ![t] = NoDataMsg]
            /\ tpc' = [tpc EXCEPT ![t] = "done"]
       ELSE /\ tresult' = tresult
            /\ tpc' = [tpc EXCEPT ![t] = "join"]
    /\ UNCHANGED <<tsawNone, ttmp, traised>>
    /\ UNCHANGED <<navVars, queryVars, callVars, matchVars, crawlVars>>

\* line 198: "\n".join(list_level_names), a TypeError when it is still None
RaceJoin(t) ==
    /\ tpc[t] = "join"
    /\ IF list_level_names = None
       THEN /\ traised' = [traised EXCEPT ![t] = TypeError]
            /\ tresult' = tresult
       ELSE /\ tresult' = [tresult EXCEPT ![t] =
                              LevelNameHeader \o Join(list_level_names)]
            /\ traised' = traised
    /\ tpc' = [tpc EXCEPT ![t] = "done"]
    /\ UNCHANGED <<tsawNone, ttmp>>
    /\ UNCHANGED <<navVars, queryVars, callVars, matchVars, crawlVars>>

NextRace ==
    \E t \in Callers :
        \/ RaceCheck(t)
        \/ RaceFetch(t)
        \/ RaceStoreDict(t)
        \/ RaceStoreNames(t)
        \/ RaceReturn(t)
        \/ RaceJoin(t)

SpecRace == Init /\ [][NextRace]_vars

\* the callers that have run the fetch of line 49
HaveFetched == {t \in Callers : tsawNone[t] /\ tpc[t] # "fetch"}

\* C14: nothing guards the lazy load: every caller that found
\* dict_level_options None fetches the tree, whatever the other callers did
\* in between, so the tree is fetched once for each such caller, and every
\* caller whose fetch answered assigns what it fetched.
C14_NoInitGuard ==
    /\ fetches = Cardinality(HaveFetched)
    /\ \A t \in Callers :
        tpc[t] = "store_dict" => (tsawNone[t] /\ ttmp[t] # None)

\* two callers have fetched and loaded the tree, no fetch failed, and a third
\* caller, which found dict_level_options set, met list_level_names still
\* None
C14_Witness ==
    /\ fetches = 2
    /\ ~loadFailed
    /\ dict_level_options # None
    /\ Cardinality({t \in Callers :
            tsawNone[t] /\ tpc[t] \notin {"fetch", "store_dict"}
                        /\ traised[t] = NoException}) = 2
    /\ \E t \in Callers :
        /\ ~tsawNone[t]
        /\ tpc[t] = "done"
        /\ traised[t] = TypeError

-----------------------------------------------------------------------------
(* The query server, mcp_cefi_data_query.py *)

AttributeError == "AttributeError"
ValueError == "ValueError"

\* check_cefi_data_cache of the query server, called by the __main__ block
\* only: the new global, and the return value or the exception
query_check_cefi_data_cache(d, response) ==
    IF d = None
    THEN LET sub == SubscriptPath(load_cefi_data_tree(response), PortalPath, 1)
         IN  IF sub.raised # NoException
             THEN [dict |-> d, raised |-> sub.raised, ret |-> None]
             ELSE [dict |-> sub.value, raised |-> NoException, ret |-> PyTrue]
    ELSE [dict |-> d, raised |-> NoException, ret |-> PyTrue]

\* d.keys() for the value a subscript chain gave: None has no keys()
KeysOf(sub) ==
    IF sub.raised # NoException THEN [raised |-> sub.raised, ret |-> None]
    ELSE IF sub.value = None THEN [raised |-> AttributeError, ret |-> None]
    ELSE [raised |-> NoException, ret |-> Keys(sub.value)]

\* get_region_options (no key) to get_variable_category_options (six
\* keys): the keys of dict_data_tree[k1]...[kn], joined
get_options(d, path) ==
    LET keys == KeysOf(SubscriptPath(d, path, 1))
    IN  IF keys.raised # NoException THEN keys
        ELSE [raised |-> NoException, ret |-> Join(keys.ret)]

RECURSIVE KeysBelow(_, _)
\* the keys of the values of node's keys from position i on, in order
KeysBelow(node, i) ==
    IF i > Len(node[2]) THEN <<>>
    ELSE Keys(node[2][i][2]) \o KeysBelow(node, i + 1)

RECURSIVE KeysTwoBelow(_, _)
\* the keys two levels below node's keys from position i on, in order
KeysTwoBelow(node, i) ==
    IF i > Len(node[2]) THEN <<>>
    ELSE KeysBelow(node[2][i][2], 1) \o KeysTwoBelow(node, i + 1)

\* get_variable_name_options: the long names, short names and file names
\* under the seven keys
get_variable_name_options(d, path) ==
    LET sub == SubscriptPath(d, path, 1)
        keys == KeysOf(sub)
    IN  IF keys.raised # NoException THEN keys
        ELSE [raised |-> NoException,
              ret |-> <<"All available variable full name\n">>
                      \o Join(keys.ret)
                      \o <<"\n\n", "All available variable short name\n">>
                      \o Join(KeysBelow(sub.value, 1))
                      \o <<"\n\n", "All available variable filename\n">>
                      \o Join(KeysTwoBelow(sub.value, 1))]

RECURSIVE JoinSlash(_)
\* the f-string of general_url_format: the parts with "/" between them
JoinSlash(parts) ==
    IF Len(parts) = 0 THEN <<>>
    ELSE IF Len(parts) = 1 THEN parts[1]
    ELSE parts[1] \o <<"/">> \o JoinSlash(Tail(parts))

general_url_format(parts) == JoinSlash(parts)

BaseOpendapUrl ==
    <<"http://psl.noaa.gov/thredds/dodsC/Projects/CEFI/regional_mom6/cefi_portal/">>

get_opendap_url(parts) ==
    <<"OPeNDAP URL : ">> \o BaseOpendapUrl \o general_url_format(parts)

\* what a key argument of the query tools is drawn from: two keys of the
\* tree and a string that is no key
QueryKeys == {kABC, kCD, sAB}

\* the key tuples of the get_*_options tools, none to seven keys
QueryPaths == UNION {[1..n -> QueryKeys] : n \in 0..NumLevels}

QueryPreload ==
    /\ call = Idle
    /\ \E response \in ResponsesFor(dict_data_tree) :
        LET c == query_check_cefi_data_cache(dict_data_tree, response)
        IN  /\ dict_data_tree' = c.dict
            /\ call' = "check_cefi_data_cache"
            /\ args' = <<>>
            /\ result' = c.ret
            /\ raised' = c.raised
    /\ UNCHANGED <<navVars, matchVars, crawlVars, raceVars>>

QueryGetOptions ==
    /\ call = Idle
    /\ \E path \in QueryPaths :
        LET out == IF Len(path) = NumLevels
                   THEN get_variable_name_options(dict_data_tree, path)
                   ELSE get_options(dict_data_tree, path)
        IN  /\ call' = "get_options"
            /\ args' = path
            /\ result' = out.ret
            /\ raised' = out.raised
    /\ UNCHANGED <<navVars, queryVars, matchVars, crawlVars, raceVars>>

QueryGetOpendapUrl ==
    /\ call = Idle
    /\ \E parts \in [1..NumLevels -> QueryKeys] :
        /\ call' = "get_opendap_url"
        /\ args' = parts
        /\ result' = get_opendap_url(parts)
        /\ raised' = NoException
    /\ UNCHANGED <<navVars, queryVars, matchVars, crawlVars, raceVars>>

-----------------------------------------------------------------------------
(* The analysis server, mcp_cefi_analysis.py *)

\* an opened xarray Dataset: its attrs, its variables and their values at
\* a point
Dataset ==
    <<"Dataset",
      Dict(<< << <<"title">>, <<"CEFI">> >> >>),
      { <<"tos">>, <<"member">> },
      << <<"0.5">>, <<"1.5">> >> >>

\* ds.attrs, the variables ds has, and their values at a point
Attrs(ds) == ds[2]
Variables(ds) == ds[3]
Values(ds) == ds[4]

SomeUrl == <<"u">>
EmptyStr == <<>>

\* what a data source argument is drawn from
SourceArgs == {None, EmptyStr, SomeUrl}

\* isinstance(v, str)
IsStr(v) == v # None /\ ~IsDict(v) /\ (Len(v) > 0 => v[1] # "Dataset")

\* get_opendap_data and get_cloud_data: the Dataset, or None when opening
\* raised (an empty link never opens)
open_source(link, opens) == IF opens /\ link # EmptyStr THEN Dataset ELSE None

\* get_available_data(opendap_url, s3_link, gcs_link) when the sources that
\* can be opened are canOpen
get_available_data(opendap_url, s3_link, gcs_link, canOpen) ==
    IF ~Truthy(opendap_url) /\ ~Truthy(s3_link) /\ ~Truthy(gcs_link)
    THEN [raised |-> ValueError, ret |-> None]
    ELSE IF IsStr(opendap_url)
    THEN [raised |-> NoException,
          ret |-> open_source(opendap_url, "opendap" \in canOpen)]
    ELSE IF IsStr(s3_link)
    THEN [raised |-> NoException,
          ret |-> open_source(s3_link, "s3" \in canOpen)]
    ELSE IF Truthy(gcs_link)
    THEN [raised |-> NoException,
          ret |-> open_source(gcs_link, "gcs" \in canOpen)]
    ELSE [raised |-> NoException, ret |-> None]

\* get_file_metadata: ds.attrs
get_file_metadata(got) ==
    IF got.raised # NoException THEN got
    ELSE IF got.ret = None THEN [raised |-> AttributeError, ret |-> None]
    ELSE [raised |-> NoException, ret |-> Attrs(got.ret)]

RECURSIVE JoinComma(_)
\* json.dumps of the items of a list
JoinComma(items) ==
    IF Len(items) = 0 THEN <<>>
    ELSE IF Len(items) = 1 THEN items[1]
    ELSE items[1] \o <<", ">> \o JoinComma(Tail(items))

\* ds[cefi_variable] at the point: None is not subscriptable, a Dataset
\* raises KeyError for a variable it lacks
point_values(got, cefi_variable) ==
    IF got.raised # NoException THEN got
    ELSE IF got.ret = None THEN [raised |-> TypeError, ret |-> None]
    ELSE IF cefi_variable \notin Variables(got.ret)
    THEN [raised |-> KeyError, ret |-> None]
    ELSE [raised |-> NoException, ret |-> Values(got.ret)]

\* get_point_time_series: json.dumps({'time series': [...]})
get_point_time_series(got, cefi_variable) ==
    LET v == point_values(got, cefi_variable)
    IN  IF v.raised # NoException THEN v
        ELSE [raised |-> NoException,
              ret |-> <<"{\"time series\": [">> \o JoinComma(v.ret) \o <<"]}">>]

\* get_point_forecast: json.dumps of the ensemble mean and the members
get_point_forecast(got, cefi_variable) ==
    LET v == point_values(got, cefi_variable)
    IN  IF v.raised # NoException THEN v
        ELSE [raised |-> NoException,
              ret |-> <<"{\"ensemble mean forecast\": [">> \o JoinComma(v.ret)
                      \o <<"], \"ensemble forecasts\": [[">>
                      \o JoinComma(v.ret) \o <<"]]}">>]

DataSources == {"opendap", "s3", "gcs"}

VariableArgs == { <<"tos">>, <<"sst">> }

AnalysisTools == {"get_file_metadata", "get_point_time_series", "get_point_forecast"}

\* one call of a tool of the analysis server
AnalysisCall ==
    /\ call = Idle
    /\ \E tool \in AnalysisTools, o \in SourceArgs, s3 \in SourceArgs,
          gcs \in SourceArgs, v \in VariableArgs, canOpen \in SUBSET DataSources :
        LET got == get_available_data(o, s3, gcs, canOpen)
            out == CASE tool = "get_file_metadata" -> get_file_metadata(got)
                     [] tool = "get_point_time_series" ->
                            get_point_time_series(got, v)
                     [] OTHER -> get_point_forecast(got, v)
        IN  /\ call' = tool
            /\ args' = <<o, s3, gcs, v, canOpen>>
            /\ result' = out.ret
            /\ raised' = out.raised
    /\ UNCHANGED <<navVars, queryVars, matchVars, crawlVars, raceVars>>

NextTools ==
    \/ QueryPreload
    \/ QueryGetOptions
    \/ QueryGetOpendapUrl
    \/ AnalysisCall
    \/ Deliver

SpecTools == Init /\ [][NextTools]_vars

\* C3: the only exception that escapes a tool call is the ValueError of
\* get_available_data; every other failure is returned as data.
C3_OnlyValueErrorEscapes ==
    (call \notin {Idle, "check_cefi_data_cache"}) =>
        raised \in {NoException, ValueError}

\* the sources a call of an analysis tool was given that open, in the order
\* OPeNDAP, S3, GCS; the last place of args holds the sources that can be opened
OpeningSources ==
    {i \in 1..3 :
        open_source(args[i], <<"opendap", "s3", "gcs">>[i] \in args[5]) # None}

\* C12 as stated: get_available_data falls through to the next supplied source
\* when an earlier one fails to open, so the data is None only if every
\* supplied source fails: a get_file_metadata call given a source that opens
\* returns the attributes of the Dataset.
C12_FallsThroughToNextSource ==
    (call = "get_file_metadata" /\ OpeningSources # {}) =>
        (raised = NoException /\ result = Attrs(Dataset))

-----------------------------------------------------------------------------
(* is_match on drawn inputs *)

MaxCands == 3

\* the strings queries and candidates are drawn from
Words ==
    { <<>>,
      <<"a">>,
      <<"a", "b">>,
      <<"A", "B">>,
      <<"A", "b", "c">>,
      <<"a", "b", "c", "d", "e">>,
      <<"a", "b", "c", "x", "y">>,
      <<"a", "b", "c", "d", "x">>,
      <<"x", "b", "c", "d", "e">>,
      <<"x", "y">> }

CandLists == UNION {[1..n -> Words] : n \in 0..MaxCands}

InitMatch ==
    /\ mquery \in Words
    /\ mcands \in CandLists
    /\ mresult = None
    /\ mdone = FALSE

ApplyIsMatch ==
    /\ ~mdone
    /\ mresult' = is_match(mquery, mcands)
    /\ mdone' = TRUE
    /\ UNCHANGED <<mquery, mcands>>

NextMatch == ApplyIsMatch /\ UNCHANGED <<navVars, queryVars, callVars, crawlVars, raceVars>>

Spec == Init /\ [][Next]_vars

InitSpecMatch == InitMatch /\ InitNav

SpecMatch == InitSpecMatch /\ [][NextMatch]_vars

-----------------------------------------------------------------------------
(* Properties of is_match (SpecMatch) *)

\* the positions of the candidates whose lowercased form contains the
\* lowercased query
Containing == {i \in 1..Len(mcands) : Contains(Lower(mcands[i]), Lower(mquery))}

RECURSIVE RatiosFrom(_)
\* the similarity ratios of the query and the candidates from position i on
RatiosFrom(i) ==
    IF i > Len(mcands) THEN <<>>
    ELSE <<Ratio(Lower(mquery), Lower(mcands[i]))>> \o RatiosFrom(i + 1)

\* the similarity ratio of the query and each candidate
Ratios == RatiosFrom(1)

\* r = s for two fractions
FracEQ(r, s) == r[1] * s[2] = s[1] * r[2]

\* the least element of a non-empty set of positions
Least(S) == CHOOSE i \in S : \A j \in S : i <= j

\* C4 as stated: whenever the query differs from a candidate c only in
\* letter case, is_match returns exactly c.
C4_CaseVariantReturnsIt ==
    mdone =>
        \A i \in 1..Len(mcands) :
            Lower(mquery) = Lower(mcands[i]) => mresult = mcands[i]

\* C4 amended: whenever the query differs from a candidate c only in letter
\* case, is_match returns the first candidate whose lowercased form
\* contains the lowercased query: c itself when no earlier candidate
\* contains it, and otherwise the earliest candidate that does.
C4_CaseVariantFirstContaining ==
    mdone =>
        \A i \in 1..Len(mcands) :
            Lower(mquery) = Lower(mcands[i]) =>
                LET earlier == {k \in 1..(i - 1) :
                                  Contains(Lower(mcands[k]), Lower(mquery))}
                IN  IF earlier = {} THEN mresult = mcands[i]
                    ELSE mresult = mcands[Least(earlier)]

\* a case variant of the query is a candidate, an earlier and different
\* candidate contains the query, and is_match has returned the earlier one
C4_Witness ==
    /\ mdone
    /\ \E i \in 1..Len(mcands) :
        /\ Lower(mquery) = Lower(mcands[i])
        /\ mquery # mcands[i]
        /\ \E k \in 1..(i - 1) :
            /\ Contains(Lower(mcands[k]), Lower(mquery))
            /\ Lower(mcands[k]) # Lower(mquery)
            /\ mresult = mcands[k]

\* C5: whenever some candidate's lowercased form contains the lowercased
\* query, is_match returns the first such candidate, whatever the
\* similarity ratios of the other candidates.
C5_SubstringRule ==
    (mdone /\ Containing # {}) => mresult = mcands[Least(Containing)]

\* the returned candidate contains the query and has a ratio of at most
\* 0.6, while another candidate, not containing it, has a ratio above 0.6
C5_Witness ==
    /\ mdone
    /\ Containing # {}
    /\ mresult = mcands[Least(Containing)]
    /\ LET r == Ratios
       IN  /\ ~FracGT(r[Least(Containing)], Threshold)
           /\ \E j \in 1..Len(mcands) :
                j \notin Containing /\ FracGT(r[j], Threshold)

\* C6: when no candidate contains the query, is_match returns None exactly
\* when no candidate has ratio > 0.6, and otherwise the first of the
\* candidates of maximal ratio among those with ratio > 0.6; a candidate of
\* ratio exactly 0.6 is never returned.
C6_FuzzyRule ==
    (mdone /\ Containing = {}) =>
        LET r == Ratios
            above == {i \in 1..Len(mcands) : FracGT(r[i], Threshold)}
            top == {i \in above : \A j \in above : ~FracGT(r[j], r[i])}
        IN  /\ (mresult = None) <=> (above = {})
            /\ above # {} => mresult = mcands[Least(top)]
            /\ \A i \in 1..Len(mcands) :
                FracEQ(r[i], Threshold) => mresult # mcands[i]

\* no candidate contains the query, one has ratio exactly 0.6, two different
\* ones tie above 0.6, and is_match has returned the first of the two
C6_Witness ==
    /\ mdone
    /\ Containing = {}
    /\ LET r == Ratios
       IN  /\ \E k \in 1..Len(mcands) : FracEQ(r[k], Threshold)
           /\ \E i, j \in 1..Len(mcands) :
                /\ i < j
                /\ mcands[i] # mcands[j]
                /\ FracGT(r[i], Threshold)
                /\ FracEQ(r[i], r[j])
                /\ mresult = mcands[i]


-----------------------------------------------------------------------------
(* cefi_thredds_crawl.py: find_all_files_thredds and its nested recurse.   *)
(* A url is a str like every other: here the fragments are the scheme and  *)
(* host, one fragment per directory, and the file name.                    *)

\* at most this many catalogs fail, in the GET or in the parse, during a crawl
MaxFailures == 1

Host == "https://psl.noaa.gov"
CatalogXml == "/catalog.xml"
CatalogHtml == "/catalog.html"
DodsC == <<Host, "/thredds/dodsC/">>

\* the server holds three catalogs: a parent and two it may reference side by
\* side, or a chain of three
DirNames == <<"/d1", "/d2", "/d3">>
Dirs == {DirNames[i] : i \in DOMAIN DirNames}
CatalogUrl(d) == <<Host, d, CatalogXml>>
CatalogUrls == {CatalogUrl(d) : d \in Dirs}

\* str.endswith and str.rstrip, fragment by fragment
EndsWith(s, suffix) == Len(s) > 0 /\ s[Len(s)] = suffix

RECURSIVE RStrip(_, _)
RStrip(s, ch) ==
    IF EndsWith(s, ch) THEN RStrip(SubSeq(s, 1, Len(s) - 1), ch) ELSE s

\* str.replace(old, new)
Replace(s, old, new) == [i \in 1..Len(s) |-> IF s[i] = old THEN new ELSE s[i]]

\* urljoin(base, ref) for a ref that is an absolute path: scheme and host of
\* base, path of ref
urljoin_path(base, ref) == <<base[1]>> \o ref

\* urljoin(base, ref) for a relative ref and a base that ends in "/"
urljoin_relative(base, ref) == base \o ref

\* lines 63-65
NormaliseBase(base) ==
    IF ~EndsWith(base, CatalogXml) THEN RStrip(base, "/") \o <<CatalogXml>>
    ELSE base

\* line 53
HtmlUrl(catalog_xml_url) == Replace(catalog_xml_url, CatalogXml, CatalogHtml)

\* lines 41-50: the access urls of the dataset entries whose urlPath ends in
\* ".nc" (an entry without urlPath reads as the empty str)
NcUrls(datasets) ==
    LET kept == SelectSeq(datasets, LAMBDA url_path : EndsWith(url_path, ".nc"))
    IN  [i \in 1..Len(kept) |-> urljoin_relative(DodsC, kept[i])]

\* lines 57-61: the urls recurse is called with, in document order; a
\* catalogRef without href, or with an empty one, is passed over
SubCatalogs(catalog_xml_url, hrefs) ==
    LET kept == SelectSeq(hrefs, LAMBDA href : href # None /\ href # EmptyStr)
    IN  [i \in 1..Len(kept) |-> urljoin_path(catalog_xml_url, kept[i])]

Put(f, k, v) == [x \in DOMAIN f \cup {k} |-> IF x = k THEN v ELSE f[x]]

\* the dict update without the guard of line 52
StoreResult_Unconditional(res, catalog_xml_url, nc_urls) ==
    Put(res, HtmlUrl(catalog_xml_url), nc_urls)

\* lines 52-54
StoreResult(res, catalog_xml_url, nc_urls) ==
    IF nc_urls # <<>> THEN Put(res, HtmlUrl(catalog_xml_url), nc_urls)
    ELSE res

Count(u) == IF u \in DOMAIN fetchCount THEN fetchCount[u] ELSE 0

\* the catalogs recurse gave up on at line 29 or line 35
Failed == visited \ DOMAIN parsedDatasets
MayFail == Cardinality(Failed) < MaxFailures

(* what the server may hold *)

Href(d) == <<d, CatalogXml>>
Hrefs == {Href(d) : d \in Dirs} \cup {EmptyStr}
\* a catalog references nothing, one catalog, or two (the same one twice
\* included)
RefLists ==
    {<<>>} \cup {<<a>> : a \in Hrefs} \cup {<<a, b>> : a \in Hrefs, b \in Hrefs}

UrlPath(name, ext) == <<"Projects/", name, ext>>
DatasetLists ==
    { <<>>,
      <<UrlPath("readme", ".txt"), EmptyStr>>,
      <<UrlPath("tos", ".nc"), UrlPath("notes", ".txt"), UrlPath("sos", ".nc")>> }

\* the argument: a directory url with its trailing slash, or the catalog itself
BaseInputs == { <<Host, DirNames[1], "/">>, CatalogUrl(DirNames[1]) }


(* the calls in progress *)

Pending == cstack[Len(cstack)]
NextUrl == Head(Pending)
\* the innermost call moves on to its next catalogRef
Advance == [cstack EXCEPT ![Len(cstack)] = Tail(@)]
Calling == cpc = "crawling" /\ cstack # <<>> /\ Pending # <<>>

\* lines 15-16 and 63-67: the sets are created, the base url is normalised and
\* recurse is about to be called with it
StartCrawl ==
    /\ cpc = "start"
    /\ \E base \in BaseInputs :
        /\ base_catalog_url' = base
        /\ cstack' = << <<NormaliseBase(base)>> >>
    /\ cpc' = "crawling"
    /\ visited' = {}
    /\ cresult' = <<>>
    /\ UNCHANGED <<fetchCount, parsedDatasets, discovered, hidden, skipped>>
    /\ UNCHANGED <<navVars, queryVars, callVars, matchVars, raceVars>>

\* lines 19-20: recurse is called with a url it has seen
RecurseVisited ==
    /\ Calling
    /\ NextUrl \in visited
    /\ skipped' = skipped \cup {NextUrl}
    /\ cstack' = Advance
    /\ UNCHANGED <<cpc, base_catalog_url, visited, cresult, fetchCount,
                   parsedDatasets, discovered, hidden>>
    /\ UNCHANGED <<navVars, queryVars, callVars, matchVars, raceVars>>

\* a failed GET that leaves the url out of visited
RecurseFetchFailed_Unmarked ==
    /\ Calling
    /\ NextUrl \notin visited
    /\ MayFail
    /\ fetchCount' = Put(fetchCount, NextUrl, Count(NextUrl) + 1)
    /\ \E hrefs \in RefLists :
        hidden' = hidden \cup {SubCatalogs(NextUrl, hrefs)[i] :
                                 i \in 1..Len(SubCatalogs(NextUrl, hrefs))}
    /\ cstack' = Advance
    /\ UNCHANGED <<cpc, base_catalog_url, visited, cresult, parsedDatasets,
                   discovered, skipped>>
    /\ UNCHANGED <<navVars, queryVars, callVars, matchVars, raceVars>>

\* lines 19-29: the GET raises (timeout, connection error, HTTP status); the
\* catalog at the url, with whatever it references, is never seen
RecurseFetchFailed ==
    /\ Calling
    /\ NextUrl \notin visited
    /\ MayFail
    /\ visited' = visited \cup {NextUrl}
    /\ fetchCount' = Put(fetchCount, NextUrl, Count(NextUrl) + 1)
    /\ \E hrefs \in RefLists :
        hidden' = hidden \cup {SubCatalogs(NextUrl, hrefs)[i] :
                                 i \in 1..Len(SubCatalogs(NextUrl, hrefs))}
    /\ cstack' = Advance
    /\ UNCHANGED <<cpc, base_catalog_url, cresult, parsedDatasets,
                   discovered, skipped>>
    /\ UNCHANGED <<navVars, queryVars, callVars, matchVars, raceVars>>

\* a ParseError that is not caught: it unwinds every call and ends the crawl
RecurseParseFailed_Uncaught ==
    /\ Calling
    /\ NextUrl \notin visited
    /\ MayFail
    /\ visited' = visited \cup {NextUrl}
    /\ fetchCount' = Put(fetchCount, NextUrl, Count(NextUrl) + 1)
    /\ cstack' = <<>>
    /\ cpc' = "done"
    /\ UNCHANGED <<base_catalog_url, cresult, parsedDatasets,
                   discovered, hidden, skipped>>
    /\ UNCHANGED <<navVars, queryVars, callVars, matchVars, raceVars>>

\* lines 19-35: the GET answers with something that is not XML
RecurseParseFailed ==
    /\ Calling
    /\ NextUrl \notin visited
    /\ MayFail
    /\ visited' = visited \cup {NextUrl}
    /\ fetchCount' = Put(fetchCount, NextUrl, Count(NextUrl) + 1)
    /\ cstack' = Advance
    /\ UNCHANGED <<cpc, base_catalog_url, cresult, parsedDatasets,
                   discovered, hidden, skipped>>
    /\ UNCHANGED <<navVars, queryVars, callVars, matchVars, raceVars>>

\* lines 19-56: the catalog is fetched and parsed, its .nc entries are stored
\* and the loop over its catalogRefs begins
RecurseParsed ==
    /\ Calling
    /\ NextUrl \notin visited
    /\ visited' = visited \cup {NextUrl}
    /\ fetchCount' = Put(fetchCount, NextUrl, Count(NextUrl) + 1)
    /\ \E datasets \in DatasetLists, hrefs \in RefLists :
        LET subs == SubCatalogs(NextUrl, hrefs)
        IN  /\ cresult' = StoreResult(cresult, NextUrl, NcUrls(datasets))
            /\ parsedDatasets' = Put(parsedDatasets, NextUrl, datasets)
            /\ discovered' = discovered \cup {subs[i] : i \in 1..Len(subs)}
            /\ cstack' = Append(Advance, subs)
    /\ UNCHANGED <<cpc, base_catalog_url, hidden, skipped>>
    /\ UNCHANGED <<navVars, queryVars, callVars, matchVars, raceVars>>

\* lines 57-61: the loop over the catalogRefs is over and recurse returns
RecurseReturn ==
    /\ cpc = "crawling"
    /\ Len(cstack) > 1
    /\ Pending = <<>>
    /\ cstack' = SubSeq(cstack, 1, Len(cstack) - 1)
    /\ UNCHANGED <<cpc, base_catalog_url, visited, cresult, fetchCount,
                   parsedDatasets, discovered, hidden, skipped>>
    /\ UNCHANGED <<navVars, queryVars, callVars, matchVars, raceVars>>

\* lines 67-69: recurse(base_catalog_url) has returned, result is returned
ReturnResult ==
    /\ cpc = "crawling"
    /\ Len(cstack) = 1
    /\ Pending = <<>>
    /\ cstack' = <<>>
    /\ cpc' = "done"
    /\ UNCHANGED <<base_catalog_url, visited, cresult, fetchCount,
                   parsedDatasets, discovered, hidden, skipped>>
    /\ UNCHANGED <<navVars, queryVars, callVars, matchVars, raceVars>>

NextCrawl ==
    \/ StartCrawl
    \/ RecurseVisited
    \/ RecurseFetchFailed
    \/ RecurseParseFailed
    \/ RecurseParsed
    \/ RecurseReturn
    \/ ReturnResult

\* every GET carries a timeout and nothing else in the crawl waits, so a crawl
\* that can take a step takes it
SpecCrawl == Init /\ [][NextCrawl]_vars /\ WF_vars(NextCrawl)

Root == NormaliseBase(base_catalog_url)
Done == cpc = "done"
Fetched == DOMAIN fetchCount

HasNc(datasets) == \E i \in 1..Len(datasets) : EndsWith(datasets[i], ".nc")

\* C10: the result has the key of a catalog page exactly when that catalog
\* was fetched and parsed and has at least one dataset entry whose urlPath
\* ends in ".nc"; every value in the result is a non-empty list.
C10_KeyIffQualifying ==
    /\ \A u \in CatalogUrls :
        HtmlUrl(u) \in DOMAIN cresult <=>
            (u \in DOMAIN parsedDatasets /\ HasNc(parsedDatasets[u]))
    /\ DOMAIN cresult \subseteq {HtmlUrl(u) : u \in CatalogUrls}
    /\ \A k \in DOMAIN cresult : cresult[k] # <<>>

\* the crawl is over; one parsed catalog with .nc entries is a key, another
\* parsed catalog whose entries are all of other kinds is not
C10_Witness ==
    /\ Done
    /\ \E u, v \in DOMAIN parsedDatasets :
        /\ HtmlUrl(u) \in DOMAIN cresult
        /\ Len(cresult[HtmlUrl(u)]) = 2
        /\ parsedDatasets[v] # <<>>
        /\ HtmlUrl(v) \notin DOMAIN cresult


\* the urls some call of recurse has still to be called with
Awaiting == UNION {{cstack[f][i] : i \in 1..Len(cstack[f])} : f \in 1..Len(cstack)}

\* C11: when the fetch or the parse of a catalog fails, that catalog gets no
\* entry and nothing is visited through it, the entries recorded so far are
\* kept, the catalogs its parent references after it are still to be crawled
\* (a url leaves the calls still to make only by being visited, and none is
\* left at the end), and find_all_files_thredds returns.
C11_PartialFailureTolerance ==
    /\ [](\A u \in Failed : HtmlUrl(u) \notin DOMAIN cresult)
    /\ [][Failed' # Failed =>
            /\ cresult' = cresult
            /\ cstack' = Advance
            /\ visited' = visited \cup {NextUrl}
            /\ Failed' = Failed \cup {NextUrl}
            /\ cpc' = "crawling"]_vars
    /\ [][\A k \in DOMAIN cresult :
            k \in DOMAIN cresult' /\ cresult'[k] = cresult[k]]_vars
    /\ [][\A u \in Awaiting \ Awaiting' : u \in visited']_vars
    /\ <>(Done /\ Awaiting = {})

\* the root was parsed and has its entry; the second catalog failed, the only
\* call it can have come from being the root's; the third catalog, referenced
\* by the root after it, has just been parsed and has its entry, none of its
\* own references followed yet
C11_Witness ==
    /\ cpc = "crawling"
    /\ Failed = {CatalogUrl(DirNames[2])}
    /\ DOMAIN parsedDatasets = {Root, CatalogUrl(DirNames[3])}
    /\ DOMAIN cresult = {HtmlUrl(Root), HtmlUrl(CatalogUrl(DirNames[3]))}
    /\ Len(cstack) = 3
    /\ cstack[2] = <<>>
    /\ Len(cstack[3]) = 2

=============================================================================
